---------------------------- MODULE Spec2Model ----------------------------
(***************************************************************************)
(* A model of scan_network.py: the address codec (ip_to_int, int_to_ip),   *)
(* the classifier (get_ip_type), the range enumerator (generate_ip_list),  *)
(* the input validation of get_user_input and the probe engine of main     *)
(* (ThreadPoolExecutor, scan_host, ping_host, get_hostname, final sort).   *)
(*                                                                         *)
(* Python integers are unbounded and the scanner needs the values          *)
(* 0 .. 2^32, which are beyond the integers of the model checker.  An      *)
(* integer n of the program is therefore held exactly as two limbs,        *)
(* [hi |-> n \div 2^16, lo |-> n % 2^16].  Texts are sequences of          *)
(* one-character strings.                                                  *)
(***************************************************************************)
EXTENDS Integers, Sequences, FiniteSets, TLC

VARIABLES
    (* codec round trips *)
    cdPc, cdText, cdInt, cdOut, cdBack,
    (* classifier walk over one block *)
    kPc, kCidr, kLow, kOff, kType, kCount,
    (* enumerator *)
    ePc, eStart, eNum, eCidr, eOut,
    (* probe engine, tasks with identity *)
    pc, ips, nextSubmit, task, results, arrival, progress,
    submits, lookups, pings,
    (* worker pool, counted *)
    wPc, wTotal, wSubmitted, wQueued, wRunning, wFinished, wCollected

codecVars == <<cdPc, cdText, cdInt, cdOut, cdBack>>
classVars == <<kPc, kCidr, kLow, kOff, kType, kCount>>
enumVars  == <<ePc, eStart, eNum, eCidr, eOut>>
probeVars == <<pc, ips, nextSubmit, task, results, arrival, progress,
               submits, lookups, pings>>
poolVars  == <<wPc, wTotal, wSubmitted, wQueued, wRunning, wFinished, wCollected>>
vars == <<codecVars, classVars, enumVars, probeVars, poolVars>>

-----------------------------------------------------------------------------
(* Bounds of the checked instances.                                        *)

MaxPartLen == 3
MaxHosts == 5
MaxEdge == 3
MaxScanBits == 4
MaxProbeHosts == 2
MaxPoolEntries == 22

-----------------------------------------------------------------------------
(* Exact arithmetic on two 16-bit limbs.                                   *)

W == 2^16

WNorm(h, l) == [hi |-> h + (l \div W), lo |-> l % W]
WOf(n) == WNorm(0, n)
WAdd(a, b) == WNorm(a.hi + b.hi, a.lo + b.lo)
WSub(a, b) ==
    IF a.lo >= b.lo THEN [hi |-> a.hi - b.hi, lo |-> a.lo - b.lo]
    ELSE [hi |-> a.hi - b.hi - 1, lo |-> a.lo + W - b.lo]
WLt(a, b) == a.hi < b.hi \/ (a.hi = b.hi /\ a.lo < b.lo)
WLe(a, b) == a = b \/ WLt(a, b)
(* 2 ** k, 0 <= k <= 32 *)
WPow2(k) == IF k < 16 THEN [hi |-> 0, lo |-> 2^k] ELSE [hi |-> 2^(k - 16), lo |-> 0]
(* a // 2^k *)
WShr(a, k) ==
    IF k < 16
    THEN [hi |-> a.hi \div (2^k),
          lo |-> (a.hi % (2^k)) * (2^(16 - k)) + (a.lo \div (2^k))]
    ELSE [hi |-> 0, lo |-> a.hi \div (2^(k - 16))]
(* a * 2^k, for a < 2^(33-k) *)
WShl(a, k) ==
    IF k < 16
    THEN [hi |-> a.hi * (2^k) + (a.lo \div (2^(16 - k))),
          lo |-> (a.lo % (2^(16 - k))) * (2^k)]
    ELSE [hi |-> a.lo * (2^(k - 16)), lo |-> 0]

-----------------------------------------------------------------------------
(* Text.                                                                   *)

DigitChars == <<"0", "1", "2", "3", "4", "5", "6", "7", "8", "9">>
IsDigit(c) == \E i \in 1..10 : DigitChars[i] = c
DigitVal(c) == (CHOOSE i \in 1..10 : DigitChars[i] = c) - 1

RECURSIVE DigitsVal(_)
DigitsVal(s) ==
    IF s = <<>> THEN 0
    ELSE DigitsVal(SubSeq(s, 1, Len(s) - 1)) * 10 + DigitVal(s[Len(s)])

(* int(text): an optional sign and one or more decimal digits; anything    *)
(* else raises ValueError (ok = FALSE).  Leading zeros are accepted.       *)
PyInt(s) ==
    LET signed == Len(s) > 0 /\ s[1] \in {"+", "-"}
        body == IF signed THEN Tail(s) ELSE s
        good == Len(body) > 0 /\ \A i \in 1..Len(body) : IsDigit(body[i])
    IN  [ok |-> good,
         val |-> IF ~good THEN 0
                 ELSE IF signed /\ s[1] = "-" THEN 0 - DigitsVal(body)
                 ELSE DigitsVal(body)]

(* str(n) of an integer n >= 0, as an f-string field prints it *)
RECURSIVE PyStr(_)
PyStr(n) ==
    IF n < 10 THEN <<DigitChars[n + 1]>>
    ELSE PyStr(n \div 10) \o <<DigitChars[(n % 10) + 1]>>

(* text.split(".") *)
RECURSIVE SplitFrom(_, _, _)
SplitFrom(s, i, cur) ==
    IF i > Len(s) THEN <<cur>>
    ELSE IF s[i] = "." THEN <<cur>> \o SplitFrom(s, i + 1, <<>>)
    ELSE SplitFrom(s, i + 1, Append(cur, s[i]))
Split(s) == SplitFrom(s, 1, <<>>)

RECURSIVE JoinDots(_)
JoinDots(ps) ==
    IF Len(ps) = 0 THEN <<>>
    ELSE IF Len(ps) = 1 THEN ps[1]
    ELSE ps[1] \o <<".">> \o JoinDots(Tail(ps))

-----------------------------------------------------------------------------
(* AddressCodec.                                                           *)

MAX_IP == [hi |-> W - 1, lo |-> W - 1]     \* 0xFFFFFFFF

(* ip_to_int: (int(p0) << 24) + (int(p1) << 16) + (int(p2) << 8) + int(p3) *)
ip_to_int(ip) ==
    LET parts == Split(ip)
    IN  WNorm(PyInt(parts[1]).val * 256 + PyInt(parts[2]).val,
              PyInt(parts[3]).val * 256 + PyInt(parts[4]).val)

int_to_ip_bad(num) ==
    JoinDots(<<PyStr((num.hi \div 256) % 256), PyStr(num.hi \div 256),
               PyStr((num.lo \div 256) % 256), PyStr(num.lo % 256)>>)

(* int_to_ip: (num >> 24) & 255, (num >> 16) & 255, (num >> 8) & 255,      *)
(* num & 255, printed in decimal and joined by dots                        *)
int_to_ip(num) ==
    JoinDots(<<PyStr((num.hi \div 256) % 256), PyStr(num.hi % 256),
               PyStr((num.lo \div 256) % 256), PyStr(num.lo % 256)>>)

(* The address validation of get_user_input: exactly four parts, each an   *)
(* int() between 0 and 255.                                                *)
ValidIpInput(text) ==
    LET parts == Split(text)
    IN  /\ Len(parts) = 4
        /\ \A i \in 1..4 : PyInt(parts[i]).ok
        /\ \A i \in 1..4 : PyInt(parts[i]).val >= 0 /\ PyInt(parts[i]).val <= 255

-----------------------------------------------------------------------------
(* RangeClassifier.                                                        *)

get_ip_type_bad(ip_int, cidr) ==
    LET block_size == WPow2(32 - cidr)
        network == WShl(WShr(ip_int, 32 - cidr), 32 - cidr)
        broadcast == WSub(WAdd(network, block_size), WOf(1))
    IN  IF cidr >= 30 THEN "HOST"
        ELSE IF ip_int = network THEN "NTWRK"
        ELSE IF ip_int = broadcast THEN "BCAST"
        ELSE "HOST"

get_ip_type(ip_int, cidr) ==
    LET block_size == WPow2(32 - cidr)
        network == WShl(WShr(ip_int, 32 - cidr), 32 - cidr)
        broadcast == WSub(WAdd(network, block_size), WOf(1))
    IN  IF cidr >= 31 THEN "HOST"
        ELSE IF ip_int = network THEN "NTWRK"
        ELSE IF ip_int = broadcast THEN "BCAST"
        ELSE "HOST"

-----------------------------------------------------------------------------
(* RangeEnumerator.                                                        *)

OverflowNever(current_ip) == FALSE

(* the overflow check of the loop: current_ip > 0xFFFFFFFF *)
Overflow(current_ip) == WLt(MAX_IP, current_ip)

CountsAlways(ip_type) == TRUE

(* only hosts count toward the total: ip_type == "HOST" *)
CountsAsHost(ip_type) == ip_type = "HOST"

(* the while loop of generate_ip_list, from the state (current_ip,         *)
(* hosts_found, ips) to the state it ends in                               *)
RECURSIVE WalkLoop(_, _, _, _, _)
WalkLoop(current_ip, hosts_found, ipsAcc, num_hosts, cidr) ==
    IF ~(hosts_found < num_hosts) THEN [ips |-> ipsAcc, hosts_found |-> hosts_found]
    ELSE IF Overflow(current_ip) THEN [ips |-> ipsAcc, hosts_found |-> hosts_found]
    ELSE LET ip_type == get_ip_type(current_ip, cidr)
         IN  WalkLoop(WAdd(current_ip, WOf(1)),
                      IF CountsAsHost(ip_type) THEN hosts_found + 1 ELSE hosts_found,
                      Append(ipsAcc, [ip |-> int_to_ip(current_ip), type |-> ip_type]),
                      num_hosts, cidr)

(* generate_ip_list, with the final host counter beside the list returned *)
generate_ip_list(start_ip, num_hosts, cidr) ==
    WalkLoop(ip_to_int(start_ip), 0, <<>>, num_hosts, cidr)

-----------------------------------------------------------------------------
(* Inputs of the checked instances.                                        *)

Quad(a, b, c, d) == JoinDots(<<PyStr(a), PyStr(b), PyStr(c), PyStr(d)>>)

InputChars == {"0", "2", "5", "-"}
InputParts == UNION {[1..k -> InputChars] : k \in 0..MaxPartLen}
TextInputs ==
    {JoinDots(<<a, b, c, d>>) :
        a \in {PyStr(10), <<"0", "1", "0">>}, b \in {PyStr(255)},
        c \in {PyStr(0), PyStr(255)}, d \in InputParts}
    \cup {JoinDots(<<PyStr(10), PyStr(0), PyStr(1)>>),
          JoinDots(<<PyStr(10), PyStr(0), PyStr(0), PyStr(1), PyStr(1)>>),
          <<>>}

LimbSamples == {0, 1, 9, 10, 255, 256, 2560, 2570, 49320, 65280, 65534, 65535}
AddrSamples == {[hi |-> h, lo |-> l] : h \in LimbSamples, l \in LimbSamples}

CodecIdle ==
    /\ cdPc = "idle" /\ cdText = <<>> /\ cdInt = WOf(0)
    /\ cdOut = <<>> /\ cdBack = WOf(0)
ClassIdle ==
    /\ kPc = "idle" /\ kCidr = 32 /\ kLow = WOf(0) /\ kOff = -1
    /\ kType = "none" /\ kCount = [n |-> 0, b |-> 0, h |-> 0]
EnumIdle ==
    /\ ePc = "idle" /\ eStart = <<>> /\ eNum = 0 /\ eCidr = 0
    /\ eOut = [ips |-> <<>>, hosts_found |-> 0]
ProbeIdle ==
    /\ pc = "idle" /\ ips = <<>> /\ nextSubmit = 1 /\ task = <<>>
    /\ results = <<>> /\ arrival = <<>> /\ progress = 0
    /\ submits = <<>> /\ lookups = <<>> /\ pings = <<>>
PoolIdle ==
    /\ wPc = "idle" /\ wTotal = 0 /\ wSubmitted = 0 /\ wQueued = 0
    /\ wRunning = 0 /\ wFinished = 0 /\ wCollected = 0

-----------------------------------------------------------------------------
(* Codec: a start address is read and validated as get_user_input does,    *)
(* encoded and decoded again; an address is decoded and encoded again.     *)

CodecInit ==
    /\ \/ /\ cdPc = "prompt" /\ cdInt = WOf(0)
       \/ /\ cdPc = "addr" /\ cdInt \in AddrSamples
    /\ cdText = <<>> /\ cdOut = <<>> /\ cdBack = WOf(0)
    /\ ClassIdle /\ EnumIdle /\ ProbeIdle /\ PoolIdle

ReadStartIp ==
    /\ cdPc = "prompt"
    /\ \E t \in TextInputs :
        /\ cdText' = t
        /\ cdPc' = IF ValidIpInput(t) THEN "valid" ELSE "prompt"
    /\ UNCHANGED <<cdInt, cdOut, cdBack, classVars, enumVars, probeVars, poolVars>>

EncodeText ==
    /\ cdPc = "valid"
    /\ cdInt' = ip_to_int(cdText)
    /\ cdPc' = "encoded"
    /\ UNCHANGED <<cdText, cdOut, cdBack, classVars, enumVars, probeVars, poolVars>>

DecodeInt ==
    /\ cdPc = "encoded"
    /\ cdOut' = int_to_ip(cdInt)
    /\ cdPc' = "decoded"
    /\ UNCHANGED <<cdText, cdInt, cdBack, classVars, enumVars, probeVars, poolVars>>

DecodeAddr ==
    /\ cdPc = "addr"
    /\ cdOut' = int_to_ip(cdInt)
    /\ cdPc' = "addr_text"
    /\ UNCHANGED <<cdText, cdInt, cdBack, classVars, enumVars, probeVars, poolVars>>

EncodeAddr ==
    /\ cdPc = "addr_text"
    /\ cdBack' = ip_to_int(cdOut)
    /\ cdPc' = "addr_done"
    /\ UNCHANGED <<cdText, cdInt, cdOut, classVars, enumVars, probeVars, poolVars>>

CodecNext == ReadStartIp \/ EncodeText \/ DecodeInt \/ DecodeAddr \/ EncodeAddr
SpecCodec == CodecInit /\ [][CodecNext]_vars

(* C8 as stated: decode(encode(s)) = s for every dotted quad the input     *)
(* validation accepts, and encode(decode(a)) = a for every address a.      *)
C8_RoundTripAsStated ==
    /\ cdPc = "decoded" => cdOut = cdText
    /\ cdPc = "addr_done" => cdBack = cdInt

CanonicalPart(p) ==
    /\ Len(p) >= 1
    /\ \A i \in 1..Len(p) : IsDigit(p[i])
    /\ Len(p) = 1 \/ p[1] # "0"
CanonicalQuad(t) == \A i \in 1..Len(Split(t)) : CanonicalPart(Split(t)[i])

(* C8 amended: decode(encode(s)) = s for every accepted dotted quad whose  *)
(* octets are written canonically (digits only, no sign, no leading zero); *)
(* for any accepted s the decoded text is canonical and encodes to the     *)
(* same address; encode(decode(a)) = a for every address a.                *)
C8_RoundTripCanonical ==
    /\ cdPc = "decoded" /\ CanonicalQuad(cdText) => cdOut = cdText
    /\ cdPc = "decoded" => CanonicalQuad(cdOut) /\ ip_to_int(cdOut) = cdInt
    /\ cdPc = "addr_done" => cdBack = cdInt
    /\ cdPc \in {"encoded", "decoded"} => WLe(cdInt, MAX_IP)

C8_Witness ==
    /\ cdPc = "decoded" /\ CanonicalQuad(cdText)
    /\ cdText = Quad(10, 255, 0, 250)

-----------------------------------------------------------------------------
(* Classifier: the addresses of one aligned block are classified in        *)
(* ascending order; a block of more than 2^MaxScanBits addresses is        *)
(* visited at its first and last MaxEdge addresses and at its middle.      *)

Cidrs == 8..32
BlockSize(cidr) == 2^(32 - cidr)

(* index of the first, the second, an inner and the last block of /cidr *)
BlockIndexes(cidr) ==
    {WOf(0), WOf(1), WShr([hi |-> 10 * 256, lo |-> 0], 32 - cidr),
     WSub(WPow2(cidr), WOf(1))}

Offsets(cidr) ==
    IF BlockSize(cidr) <= 2^MaxScanBits THEN 0..(BlockSize(cidr) - 1)
    ELSE (0..(MaxEdge - 1)) \cup {BlockSize(cidr) \div 2}
         \cup ((BlockSize(cidr) - MaxEdge)..(BlockSize(cidr) - 1))

ClassInit ==
    /\ kPc = "walk"
    /\ kCidr \in Cidrs
    /\ kLow \in {WShl(i, 32 - kCidr) : i \in BlockIndexes(kCidr)}
    /\ kOff = -1
    /\ kType = "none"
    /\ kCount = [n |-> 0, b |-> 0, h |-> 0]
    /\ CodecIdle /\ EnumIdle /\ ProbeIdle /\ PoolIdle

ClassifyNext ==
    /\ kPc = "walk"
    /\ LET later == {o \in Offsets(kCidr) : o > kOff}
           o == CHOOSE x \in later : \A y \in later : x <= y
           t == get_ip_type(WAdd(kLow, WOf(o)), kCidr)
       IN  /\ kOff' = o
           /\ kType' = t
           /\ kCount' = [n |-> kCount.n + (IF t = "NTWRK" THEN 1 ELSE 0),
                         b |-> kCount.b + (IF t = "BCAST" THEN 1 ELSE 0),
                         h |-> kCount.h + (IF t = "HOST" THEN 1 ELSE 0)]
           /\ kPc' = IF o = BlockSize(kCidr) - 1 THEN "done" ELSE "walk"
    /\ UNCHANGED <<kCidr, kLow, codecVars, enumVars, probeVars, poolVars>>

ClassNext == ClassifyNext
SpecClassify == ClassInit /\ [][ClassNext]_vars

(* C7: for a prefix length of 8..30 the lowest address of a block, and no  *)
(* other, is NETWORK, the highest, and no other, is BROADCAST, and all     *)
(* others are HOST; for a prefix length of 31 or 32 every address is HOST. *)
C7_OnePerBlock ==
    /\ kOff >= 0 =>
        kType = IF kCidr >= 31 THEN "HOST"
                ELSE IF kOff = 0 THEN "NTWRK"
                ELSE IF kOff = BlockSize(kCidr) - 1 THEN "BCAST"
                ELSE "HOST"
    /\ kPc = "done" =>
        /\ kCount.n = (IF kCidr >= 31 THEN 0 ELSE 1)
        /\ kCount.b = (IF kCidr >= 31 THEN 0 ELSE 1)
        /\ kCount.n + kCount.b + kCount.h = Cardinality(Offsets(kCidr))

C7_Witness ==
    /\ kPc = "done" /\ kCidr = 30 /\ kCount = [n |-> 1, b |-> 1, h |-> 2]
    /\ kLow = WSub(WPow2(32), WOf(4))

-----------------------------------------------------------------------------
(* Enumerator: get_user_input reads and validates the start address, the   *)
(* host count and the prefix length and returns generate_ip_list of them.  *)

StartInputs ==
    {Quad(10, 0, 0, 0), Quad(192, 168, 1, 254), Quad(10, 0, 0, 9),
     Quad(0, 0, 0, 0), Quad(10, 255, 255, 254), Quad(255, 255, 255, 250),
     Quad(255, 255, 255, 254), Quad(255, 255, 255, 255),
     JoinDots(<<PyStr(10), <<"0", "0">>, PyStr(0), <<"0", "7">>>>),
     JoinDots(<<PyStr(10), PyStr(0), PyStr(256)>>)}

EnumInit ==
    /\ ePc = "prompt_ip" /\ eStart = <<>> /\ eNum = 0 /\ eCidr = 0
    /\ eOut = [ips |-> <<>>, hosts_found |-> 0]
    /\ CodecIdle /\ ClassIdle /\ ProbeIdle /\ PoolIdle

ReadEnumStart ==
    /\ ePc = "prompt_ip"
    /\ \E t \in StartInputs :
        /\ eStart' = t
        /\ ePc' = IF ValidIpInput(t) THEN "prompt_num" ELSE "prompt_ip"
    /\ UNCHANGED <<eNum, eCidr, eOut, codecVars, classVars, probeVars, poolVars>>

ReadNumHosts ==
    /\ ePc = "prompt_num"
    /\ \E n \in 0..MaxHosts :
        /\ eNum' = n
        /\ ePc' = IF n < 1 THEN "prompt_num" ELSE "prompt_cidr"
    /\ UNCHANGED <<eStart, eCidr, eOut, codecVars, classVars, probeVars, poolVars>>

ReadCidr ==
    /\ ePc = "prompt_cidr"
    /\ \E c \in 7..33 :
        /\ eCidr' = c
        /\ ePc' = IF c < 8 \/ c > 32 THEN "prompt_cidr" ELSE "generate"
    /\ UNCHANGED <<eStart, eNum, eOut, codecVars, classVars, probeVars, poolVars>>

Generate ==
    /\ ePc = "generate"
    /\ eOut' = generate_ip_list(eStart, eNum, eCidr)
    /\ ePc' = "done"
    /\ UNCHANGED <<eStart, eNum, eCidr, codecVars, classVars, probeVars, poolVars>>

EnumNext == ReadEnumStart \/ ReadNumHosts \/ ReadCidr \/ Generate
SpecEnum == EnumInit /\ [][EnumNext]_vars

HostEntries(list) == {i \in 1..Len(list) : list[i].type = "HOST"}

(* the number of HOST addresses in [a, 0xFFFFFFFF], counted up to cap *)
RECURSIVE HostsFrom(_, _, _)
HostsFrom(a, cidr, cap) ==
    IF cap = 0 \/ WLt(MAX_IP, a) THEN 0
    ELSE IF get_ip_type(a, cidr) = "HOST"
         THEN 1 + HostsFrom(WAdd(a, WOf(1)), cidr, cap - 1)
         ELSE HostsFrom(WAdd(a, WOf(1)), cidr, cap)

(* C1: the list returned holds min(num_hosts, HOST addresses in            *)
(* [start, 2^32-1]) HOST entries, and the host counter is the number of    *)
(* HOST entries: NETWORK and BROADCAST entries are listed and not counted. *)
C1_HostCount ==
    ePc = "done" =>
        /\ Cardinality(HostEntries(eOut.ips)) = HostsFrom(ip_to_int(eStart), eCidr, eNum)
        /\ eOut.hosts_found = Cardinality(HostEntries(eOut.ips))

C1_Witness ==
    /\ ePc = "done" /\ eStart = Quad(192, 168, 1, 254) /\ eNum = 3 /\ eCidr = 24
    /\ Len(eOut.ips) = 5 /\ eOut.hosts_found = 3

C1_WitnessTruncated ==
    /\ ePc = "done" /\ eStart = Quad(255, 255, 255, 250) /\ eNum = 5 /\ eCidr = 30
    /\ eOut.hosts_found = 3

(* C2: the list is contiguous from the start address, one address apart,   *)
(* each entry with the role get_ip_type gives it; no address exceeds       *)
(* 2^32-1; the last entry is the num_hosts-th HOST entry or 2^32-1.        *)
C2_Contiguous ==
    ePc = "done" =>
        LET list == eOut.ips
            addr(i) == ip_to_int(list[i].ip)
        IN  /\ Len(list) >= 1
            /\ addr(1) = ip_to_int(eStart)
            /\ \A i \in 1..Len(list) :
                /\ WLe(addr(i), MAX_IP)
                /\ list[i].type = get_ip_type(addr(i), eCidr)
                /\ i > 1 => addr(i) = WAdd(addr(i - 1), WOf(1))
            /\ \/ /\ list[Len(list)].type = "HOST"
                  /\ Cardinality(HostEntries(list)) = eNum
               \/ addr(Len(list)) = MAX_IP
            /\ Cardinality(HostEntries(SubSeq(list, 1, Len(list) - 1))) < eNum

C2_Witness ==
    /\ ePc = "done" /\ eStart = Quad(255, 255, 255, 254) /\ eNum = 2 /\ eCidr = 24
    /\ Len(eOut.ips) = 2 /\ eOut.ips[2].ip = Quad(255, 255, 255, 255)
    /\ eOut.ips[2].type = "BCAST"

-----------------------------------------------------------------------------
(* ProbeEngine: ping_host, get_hostname, scan_host and the scan of main.   *)
(* What the resolver and the ping command answer is an input of each call. *)

DnsOutcomes == {"found", "herror", "error"}
PingOutcomes == {"reply", "silent", "error"}

ping_host_raises(ip, outcome) ==
    [raised |-> outcome = "error", val |-> outcome = "reply"]

(* ping_host: returncode == 0, and False on any exception *)
ping_host(ip, outcome) ==
    [raised |-> FALSE, val |-> IF outcome = "error" THEN FALSE ELSE outcome = "reply"]

(* get_hostname: the name found, "-" on socket.herror and on any exception *)
get_hostname(ip, outcome) ==
    [raised |-> FALSE, val |-> IF outcome = "found" THEN "name" ELSE "-"]

SkipsNetworkOnly(ip_type) == ip_type = "NTWRK"

(* scan_host: ip_type in ("NTWRK", "BCAST") returns without any probe *)
SkipsProbe(ip_type) == ip_type \in {"NTWRK", "BCAST"}

max_workers_more == 20 + 1

max_workers == 20

SubmitHostsOnly(list) ==
    SelectSeq([i \in 1..Len(list) |-> i], LAMBDA i : list[i].type = "HOST")

(* the entries main submits to the executor, in order: every ip_info of ips *)
SubmitOrder(list) == [i \in 1..Len(list) |-> i]

CompletedAgain(tk) == {i \in DOMAIN tk : tk[i].st \in {"finished", "collected"}}

(* the futures as_completed has yet to yield: completed, not yet yielded *)
Completed(tk) == {i \in DOMAIN tk : tk[i].st = "finished"}

CharOrd(c) == IF c = "." THEN 46 ELSE 48 + DigitVal(c)
SortKeyText(x) == [j \in 1..Len(x.ip) |-> CharOrd(x.ip[j])]

(* the sort key of a result: [int(p) for p in x["ip"].split(".")] *)
SortKey(x) == [j \in 1..Len(Split(x.ip)) |-> PyInt(Split(x.ip)[j]).val]

(* list < list of Python: the first differing element decides, then length *)
RECURSIVE ListLess(_, _)
ListLess(a, b) ==
    IF b = <<>> THEN FALSE
    ELSE IF a = <<>> THEN TRUE
    ELSE IF a[1] # b[1] THEN a[1] < b[1]
    ELSE ListLess(Tail(a), Tail(b))

(* list.sort(key=...): stable, ascending by key *)
RECURSIVE InsertByKey(_, _)
InsertByKey(sorted, x) ==
    IF sorted = <<>> THEN <<x>>
    ELSE IF ListLess(SortKey(x), SortKey(sorted[1])) THEN <<x>> \o sorted
    ELSE <<sorted[1]>> \o InsertByKey(Tail(sorted), x)
RECURSIVE SortResults(_)
SortResults(rs) ==
    IF rs = <<>> THEN <<>>
    ELSE InsertByKey(SortResults(SubSeq(rs, 1, Len(rs) - 1)), rs[Len(rs)])

ProbeRequests ==
    {[start |-> Quad(192, 168, 1, 254), cidr |-> 24],
     [start |-> Quad(10, 0, 0, 9), cidr |-> 24],
     [start |-> Quad(10, 0, 0, 9), cidr |-> 30],
     [start |-> Quad(10, 0, 0, 99), cidr |-> 31]}

NewTask == [st |-> "new", status |-> "none", hostname |-> "none",
            raised |-> FALSE, dnsFailed |-> FALSE, pingFailed |-> FALSE]

InFlight(tk) == Cardinality({i \in DOMAIN tk : tk[i].st \in {"running", "resolved"}})

ProbeInit ==
    /\ pc = "submit"
    /\ \E r \in ProbeRequests, n \in 1..MaxProbeHosts :
        ips = generate_ip_list(r.start, n, r.cidr).ips
    /\ nextSubmit = 1
    /\ task = [i \in 1..Len(ips) |-> NewTask]
    /\ results = <<>> /\ arrival = <<>> /\ progress = 0
    /\ submits = [i \in 1..Len(ips) |-> 0]
    /\ lookups = [i \in 1..Len(ips) |-> 0]
    /\ pings = [i \in 1..Len(ips) |-> 0]
    /\ CodecIdle /\ ClassIdle /\ EnumIdle /\ PoolIdle

(* main: executor.submit(scan_host, ip_info), one entry per step *)
Submit ==
    /\ pc = "submit"
    /\ LET order == SubmitOrder(ips)
           i == order[nextSubmit]
       IN  /\ task' = [task EXCEPT ![i].st = "queued"]
           /\ submits' = [submits EXCEPT ![i] = @ + 1]
           /\ nextSubmit' = nextSubmit + 1
           /\ pc' = IF nextSubmit + 1 > Len(order) THEN "collect" ELSE "submit"
    /\ UNCHANGED <<ips, results, arrival, progress, lookups, pings,
                   codecVars, classVars, enumVars, poolVars>>

(* a pool thread takes the oldest queued work item and calls scan_host *)
Start(i) ==
    /\ task[i].st = "queued"
    /\ \A j \in DOMAIN task : task[j].st = "queued" => i <= j
    /\ InFlight(task) < max_workers
    /\ task' = [task EXCEPT ![i].st = "running"]
    /\ UNCHANGED <<pc, ips, nextSubmit, results, arrival, progress, submits,
                   lookups, pings, codecVars, classVars, enumVars, poolVars>>

(* scan_host of a network or broadcast entry: the result without a probe *)
ReturnSpecial(i) ==
    /\ task[i].st = "running"
    /\ SkipsProbe(ips[i].type)
    /\ task' = [task EXCEPT ![i].st = "finished", ![i].status = ips[i].type,
                            ![i].hostname = "-"]
    /\ UNCHANGED <<pc, ips, nextSubmit, results, arrival, progress, submits,
                   lookups, pings, codecVars, classVars, enumVars, poolVars>>

(* scan_host of a host entry: hostname = get_hostname(ip) *)
Resolve(i) ==
    /\ task[i].st = "running"
    /\ ~SkipsProbe(ips[i].type)
    /\ \E o \in DnsOutcomes :
        LET r == get_hostname(ips[i].ip, o)
        IN  task' = [task EXCEPT ![i].st = IF r.raised THEN "finished" ELSE "resolved",
                                 ![i].raised = r.raised,
                                 ![i].hostname = r.val,
                                 ![i].dnsFailed = (o # "found")]
    /\ lookups' = [lookups EXCEPT ![i] = @ + 1]
    /\ UNCHANGED <<pc, ips, nextSubmit, results, arrival, progress, submits,
                   pings, codecVars, classVars, enumVars, poolVars>>

(* scan_host of a host entry: is_up = ping_host(ip), and the result *)
Ping(i) ==
    /\ task[i].st = "resolved"
    /\ \E o \in PingOutcomes :
        LET r == ping_host(ips[i].ip, o)
        IN  task' = [task EXCEPT ![i].st = "finished",
                                 ![i].raised = r.raised,
                                 ![i].status = IF r.raised THEN "none"
                                               ELSE IF r.val THEN "UP" ELSE "DOWN",
                                 ![i].pingFailed = (o # "reply")]
    /\ pings' = [pings EXCEPT ![i] = @ + 1]
    /\ UNCHANGED <<pc, ips, nextSubmit, results, arrival, progress, submits,
                   lookups, codecVars, classVars, enumVars, poolVars>>

(* main: one turn of the as_completed loop (future.result(), append,       *)
(* progress); after the last future the executor is left and the results   *)
(* are sorted.  An exception of scan_host is raised again by result().     *)
Collect(i) ==
    /\ pc = "collect"
    /\ i \in Completed(task)
    /\ IF task[i].raised
       THEN /\ pc' = "aborted"
            /\ UNCHANGED <<task, results, arrival, progress>>
       ELSE LET res == [ip |-> ips[i].ip, status |-> task[i].status,
                        hostname |-> task[i].hostname]
                last == Len(results) + 1 >= Len(SubmitOrder(ips))
            IN  /\ task' = [task EXCEPT ![i].st = "collected"]
                /\ arrival' = Append(arrival, ips[i].ip)
                /\ progress' = progress + 1
                /\ results' = IF last THEN SortResults(Append(results, res))
                              ELSE Append(results, res)
                /\ pc' = IF last THEN "done" ELSE "collect"
    /\ UNCHANGED <<ips, nextSubmit, submits, lookups, pings,
                   codecVars, classVars, enumVars, poolVars>>

ProbeNext ==
    \/ Submit
    \/ \E i \in DOMAIN task : Start(i)
    \/ \E i \in DOMAIN task : ReturnSpecial(i)
    \/ \E i \in DOMAIN task : Resolve(i)
    \/ \E i \in DOMAIN task : Ping(i)
    \/ \E i \in DOMAIN task : Collect(i)
SpecProbe == ProbeInit /\ [][ProbeNext]_vars

Entries == DOMAIN task
Special(i) == ips[i].type \in {"NTWRK", "BCAST"}
ResultsOf(i) == {j \in 1..Len(results) : results[j].ip = ips[i].ip}

(* C3: after the scan there is exactly one result per entry, and no entry  *)
(* is submitted, looked up, pinged or collected more than once.            *)
C3_OneResultPerEntry ==
    /\ \A i \in Entries :
        /\ submits[i] <= 1 /\ lookups[i] <= 1 /\ pings[i] <= 1
        /\ Cardinality(ResultsOf(i)) <= 1
    /\ Len(results) <= Len(ips)
    /\ progress = Len(results)
    /\ pc = "done" =>
        /\ Len(results) = Len(ips)
        /\ \A i \in Entries : Cardinality(ResultsOf(i)) = 1 /\ submits[i] = 1

C3_Witness ==
    /\ pc = "done" /\ Len(results) = 4
    /\ \E i, j \in Entries : Special(i) /\ ~Special(j)
    /\ arrival # [i \in 1..Len(ips) |-> ips[i].ip]

(* C4: whatever the order of completion, the results handed on are in      *)
(* strictly ascending order of the numeric address: the order of ips.      *)
C4_SortedByAddress ==
    pc = "done" =>
        /\ \A j \in 1..(Len(results) - 1) :
            WLt(ip_to_int(results[j].ip), ip_to_int(results[j + 1].ip))
        /\ \A j \in 1..Len(results) : j <= Len(ips) => results[j].ip = ips[j].ip

C4_Witness ==
    /\ pc = "done"
    /\ arrival = <<Quad(10, 0, 0, 10), Quad(10, 0, 0, 9)>>
    /\ results[1].ip = Quad(10, 0, 0, 9)

(* C5: a network or broadcast entry is never looked up nor pinged, and its *)
(* result carries its role as status and "-" as hostname; only a host      *)
(* entry has the status UP or DOWN.                                        *)
C5_NoProbeForSpecial ==
    /\ \A i \in Entries : Special(i) =>
        /\ lookups[i] = 0 /\ pings[i] = 0
        /\ task[i].st \in {"finished", "collected"} =>
            task[i].status = ips[i].type /\ task[i].hostname = "-"
    /\ \A i \in Entries : \A j \in ResultsOf(i) :
        /\ Special(i) => results[j].status = ips[i].type /\ results[j].hostname = "-"
        /\ results[j].status \in {"UP", "DOWN"} <=> ~Special(i)

C5_Witness ==
    /\ pc = "done"
    /\ \E j, k \in 1..Len(results) :
        /\ results[j].status = "BCAST" /\ results[k].status = "NTWRK"
    /\ \E j \in 1..Len(results) : results[j].status = "UP"

(* C6: a failed ping or a failed lookup never raises out of scan_host and  *)
(* never aborts the scan: the entry ends DOWN, or with hostname "-", and   *)
(* every host entry that finished has the status UP or DOWN.               *)
C6_FailuresDegrade ==
    /\ pc # "aborted"
    /\ \A i \in Entries :
        /\ ~task[i].raised
        /\ task[i].st \in {"finished", "collected"} /\ ~Special(i) =>
            /\ task[i].status \in {"UP", "DOWN"}
            /\ task[i].pingFailed <=> task[i].status = "DOWN"
            /\ task[i].dnsFailed <=> task[i].hostname = "-"
    /\ pc = "done" =>
        \A i \in Entries : task[i].st = "collected"

C6_Witness ==
    /\ pc = "done"
    /\ \E i, j \in Entries :
        /\ i # j
        /\ task[i].pingFailed /\ task[i].dnsFailed
        /\ ~Special(j) /\ ~task[j].pingFailed /\ ~task[j].dnsFailed

(* C10 as stated: a network or broadcast entry is never in the pool,       *)
(* neither queued nor held by a worker.                                    *)
C10_SpecialNeverInPool ==
    \A i \in Entries : Special(i) => task[i].st \notin {"queued", "running", "resolved"}

(* C10 amended: every entry, network and broadcast entries included, is    *)
(* submitted to the pool and run by a pool worker; a network or broadcast  *)
(* entry holds its worker only for the step that returns its result,       *)
(* without lookup or ping.                                                 *)
C10_SpecialRunsInPool ==
    /\ pc \in {"collect", "done"} => \A i \in Entries : submits[i] = 1
    /\ \A i \in Entries : Special(i) =>
        /\ task[i].st # "resolved"
        /\ task[i].st \in {"running", "finished", "collected"} => submits[i] = 1
        /\ task[i].st = "running" => InFlight(task) >= 1 /\ lookups[i] = 0 /\ pings[i] = 0

C10_Witness ==
    \E i, j \in Entries :
        /\ Special(i) /\ task[i].st = "running"
        /\ ~Special(j) /\ task[j].st = "queued"

-----------------------------------------------------------------------------
(* The worker pool of main, counted: ThreadPoolExecutor(max_workers=20)    *)
(* with more entries than workers.  Threads and main are scheduled, and    *)
(* scan_host ends (ping waits one second at most), hence the fairness.     *)

PoolInit ==
    /\ wPc = "submit" /\ wTotal \in 1..MaxPoolEntries
    /\ wSubmitted = 0 /\ wQueued = 0 /\ wRunning = 0 /\ wFinished = 0 /\ wCollected = 0
    /\ CodecIdle /\ ClassIdle /\ EnumIdle /\ ProbeIdle

(* main: executor.submit(scan_host, ip_info) *)
PoolSubmit ==
    /\ wPc = "submit"
    /\ wSubmitted' = wSubmitted + 1
    /\ wQueued' = wQueued + 1
    /\ wPc' = IF wSubmitted + 1 = wTotal THEN "collect" ELSE "submit"
    /\ UNCHANGED <<wTotal, wRunning, wFinished, wCollected,
                   codecVars, classVars, enumVars, probeVars>>

(* a pool thread takes a queued work item *)
PoolStart ==
    /\ wQueued > 0
    /\ wRunning < max_workers
    /\ wQueued' = wQueued - 1
    /\ wRunning' = wRunning + 1
    /\ UNCHANGED <<wPc, wTotal, wSubmitted, wFinished, wCollected,
                   codecVars, classVars, enumVars, probeVars>>

(* scan_host returns and the future completes *)
PoolFinish ==
    /\ wRunning > 0
    /\ wRunning' = wRunning - 1
    /\ wFinished' = wFinished + 1
    /\ UNCHANGED <<wPc, wTotal, wSubmitted, wQueued, wCollected,
                   codecVars, classVars, enumVars, probeVars>>

(* main: one turn of the as_completed loop *)
PoolCollect ==
    /\ wPc = "collect"
    /\ wFinished > 0
    /\ wFinished' = wFinished - 1
    /\ wCollected' = wCollected + 1
    /\ wPc' = IF wCollected + 1 = wTotal THEN "done" ELSE "collect"
    /\ UNCHANGED <<wTotal, wSubmitted, wQueued, wRunning,
                   codecVars, classVars, enumVars, probeVars>>

PoolNext == PoolSubmit \/ PoolStart \/ PoolFinish \/ PoolCollect
SpecPool ==
    /\ PoolInit /\ [][PoolNext]_vars
    /\ WF_vars(PoolSubmit) /\ WF_vars(PoolStart)
    /\ WF_vars(PoolFinish) /\ WF_vars(PoolCollect)

(* C9: never more than 20 entries are in flight, and every entry is        *)
(* processed in the end.                                                   *)
C9_BoundedAndLive ==
    /\ [](wRunning <= 20)
    /\ [](wQueued + wRunning + wFinished + wCollected = wSubmitted)
    /\ <>(wSubmitted = wTotal /\ wFinished + wCollected = wTotal)

C9_Witness == wRunning = 20 /\ wQueued >= 1

-----------------------------------------------------------------------------
(* The whole program: one of its components at work.                       *)

Init == CodecInit \/ ClassInit \/ EnumInit \/ ProbeInit \/ PoolInit
Next == CodecNext \/ ClassNext \/ EnumNext \/ ProbeNext \/ PoolNext
Spec == Init /\ [][Next]_vars

=============================================================================
